---------------------------- MODULE Spec2Model ----------------------------
(***************************************************************************)
(* Model of src/stockSelection1.py: the pickle cache, the universe         *)
(* qualifier (get_all_qualified_stocks), the two signal calculators        *)
(* (calculate_limit_up_status, calculate_trend_status) and the screening   *)
(* loop (filter_all_stocks).                                               *)
(*                                                                         *)
(* Units.  Time is counted in hours (clock); a date is a day ordinal      *)
(* (clock \div 24), which orders exactly as the source's YYYYMMDD strings. *)
(* Prices are in 0.1 yuan for quotes and in 0.01 yuan for bars.  pct_chg   *)
(* is in tenths of a percent.  Returned percentages (round(x, 2)) are in   *)
(* hundredths of a percent.                                                *)
(*                                                                         *)
(* The source's Chinese string values are written in ASCII:                *)
(*   "all" = quan bu, "lianban" = lian ban piao, "trend" = qu shi piao,    *)
(*   "unmatched" = wei pi pei, "chinext" = chuang ye ban,                  *)
(*   "star" = ke chuang ban, "main" = zhu ban, "sme" = zhong xiao ban.     *)
(***************************************************************************)
EXTENDS Integers, Sequences, FiniteSets, TLC

VARIABLES
    clock,          \* datetime.now(), in hours
    closed,         \* the exchange calendar: the set of non-trading dates
    cache,          \* the pickle file's dict: key -> [time, payload]
    lastCall,       \* what the last cached fetch did (observer of one call)
    raw_universe,   \* what pro.stock_basic returned to the qualifier
    raw_quotes,     \* what pro.daily(trade_date=...) returned to the qualifier
    qualified,      \* get_all_qualified_stocks' return value
    q_info,         \* how the last qualifier call ended
    in_df,          \* a detector's input: the fetched bars
    in_k,           \* the streak detector's required length
    out_streak,     \* calculate_limit_up_status' result on in_df
    out_trend,      \* calculate_trend_status' result on in_df
    stock_basic,    \* filter_all_stocks' candidate table
    stock_type,     \* filter_all_stocks' mode
    board_filter,   \* filter_all_stocks' venue post-filter
    pc,             \* filter_all_stocks' position
    trade_date,     \* filter_all_stocks' reference date
    idx,            \* filter_all_stocks' loop position (rows done)
    result_list,    \* filter_all_stocks' result_list
    result_df,      \* filter_all_stocks' return value
    run_log         \* per processed row: the detectors' results and failures

vars == <<clock, closed, cache, lastCall, raw_universe, raw_quotes, qualified,
          q_info, in_df, in_k, out_streak, out_trend, stock_basic, stock_type,
          board_filter, pc, trade_date, idx, result_list, result_df, run_log>>

-----------------------------------------------------------------------------
(* CONFIG, src/stockSelection1.py lines 11-23 *)

limit_up_price_pct == 98        \* 9.8 %, in tenths of a percent
trend_days == 60
trend_up_pct == 30
trend_volatility_pct == 25
min_stock_price == 30           \* 3.0 yuan, in 0.1 yuan
cache_expire_hours == 24
SecondsPerHour == 3600
default_required_days == 2      \* the streak length the loop asks for
lookback_days == 7              \* the qualifier's calendar lookback

(* Bounds of the model *)

Today0 == 100                   \* the first day of every behaviour
MaxTicks == 3                   \* half-day clock advances per behaviour
MaxDays == 1                    \* whole-day clock advances per behaviour
MaxLen == 3                     \* bars in a streak detector input
MaxK == 3                       \* largest required streak length tried
ExtraBars == 2                  \* trend inputs have up to trend_days + ExtraBars bars
MaxUniverse == 3                \* instruments in the raw universe
MaxCand == 2                    \* rows of the candidate table

-----------------------------------------------------------------------------
(* Generic helpers *)

Min(a, b) == IF a < b THEN a ELSE b

Range(s) == {s[i] : i \in 1..Len(s)}

\* the sequence s with its elements computed once (TLC evaluates a function
\* constructor anew at every application; the value is the same)
AsTuple(s) == s \o <<>>

RECURSIVE SumTo(_, _)
SumTo(s, i) == IF i = 0 THEN 0 ELSE s[i] + SumTo(s, i - 1)

SumSeq(s) == SumTo(s, Len(s))

\* the last n elements of s (DataFrame.tail(n))
TailN(s, n) == IF Len(s) <= n THEN s ELSE SubSeq(s, Len(s) - n + 1, Len(s))

RECURSIVE SelectIdx(_, _, _)
\* the elements of s at the positions of set keep, in order (boolean indexing)
SelectIdx(s, keep, i) ==
    IF i > Len(s) THEN <<>>
    ELSE (IF i \in keep THEN <<s[i]>> ELSE <<>>) \o SelectIdx(s, keep, i + 1)

\* round(n / d, 2) for n / d already in hundredths: nearest integer, ties to even
RoundDiv(n, d) ==
    LET q == n \div d
        r == n % d
    IN  IF 2 * r > d THEN q + 1
        ELSE IF 2 * r < d THEN q
        ELSE IF q % 2 = 0 THEN q ELSE q + 1

-----------------------------------------------------------------------------
(* The upstream provider (tushare): the trading calendar and the bar data. *)
(* The provider is outside the repository; these definitions state what    *)
(* the calls at the named source lines return.                             *)

Profiles == {"flat", "surge", "climb", "rocket", "wild"}

Origin == Today0 - 150          \* where the rising price series start
SurgeFrom == Today0 - 3         \* the first limit-up day of "surge"/"rocket"

\* one daily bar of a price series on date d: prices rise by 0.50 a day for
\* climb/rocket/wild and stay at 10.00 for flat/surge; the day's range is 2 %
\* of the open (30 % for wild); surge/rocket close limit-up from SurgeFrom on
BarOf(profile, d) ==
    LET rising == profile \in {"climb", "rocket", "wild"}
        px     == IF rising THEN 1000 + 50 * (d - Origin) ELSE 1000
        span   == IF profile = "wild" THEN 3 * (px \div 10) ELSE px \div 50
    IN  [trade_date |-> d, open |-> px, high |-> px + span, low |-> px,
         close |-> px,
         pct_chg |-> IF profile \in {"surge", "rocket"} /\ d >= SurgeFrom
                     THEN 100 ELSE 10]

\* pro.trade_cal(start_date, end_date, is_open=1): the open dates, ascending
RECURSIVE trade_cal(_, _)
trade_cal(start, end) ==
    IF start > end THEN <<>>
    ELSE (IF start \in closed THEN <<>> ELSE <<start>>) \o trade_cal(start + 1, end)

\* pro.daily(ts_code, start_date, end_date): one bar per open date of the
\* range, most recent first
pro_daily(profile, start, end) ==
    LET open_days == {d \in start..end : d \notin closed}
        \* how many open days follow the k-th date of the range
        later     == AsTuple([k \in 1..(end - start + 1) |->
                        Cardinality({e \in open_days : e > start + k - 1})])
    IN  AsTuple([i \in 1..Cardinality(open_days) |->
            BarOf(profile, CHOOSE d \in open_days : later[d - start + 1] = i - 1)])

-----------------------------------------------------------------------------
(* DataFrame.sort_values("trade_date") *)

\* the rows of df placed by rank: rank[i] is the position row i moves to
ByRank(df, rank) ==
    AsTuple([r \in 1..Len(df) |-> df[CHOOSE i \in 1..Len(df) : rank[i] = r]])

\* ascending by trade_date; rows with equal dates keep their order
SortAsc(df) ==
    LET n == Len(df)
        before(i, j) == \/ df[i].trade_date < df[j].trade_date
                        \/ df[i].trade_date = df[j].trade_date /\ i < j
    IN  ByRank(df, AsTuple([i \in 1..n |->
                      Cardinality({j \in 1..n : before(j, i)}) + 1]))

\* descending by trade_date; rows with equal dates keep their order
SortDesc(df) ==
    LET n == Len(df)
        before(i, j) == \/ df[i].trade_date > df[j].trade_date
                        \/ df[i].trade_date = df[j].trade_date /\ i < j
    IN  ByRank(df, AsTuple([i \in 1..n |->
                      Cardinality({j \in 1..n : before(j, i)}) + 1]))

-----------------------------------------------------------------------------
(* calculate_limit_up_status, after the fetch (lines 209-225) *)

IsLimitUpStrict(bar) == bar.pct_chg > limit_up_price_pct

IsLimitUp(bar) == bar.pct_chg >= limit_up_price_pct

\* the for loop of lines 216-223, from position i (1-based)
RECURSIVE LimitUpScan(_, _, _)
LimitUpScan(df, required_days, i) ==
    IF i > required_days \/ i > Len(df) THEN 0
    ELSE IF IsLimitUp(df[i]) THEN 1 + LimitUpScan(df, required_days, i + 1)
    ELSE 0

streak_status(daily_df, required_days) ==
    IF Len(daily_df) = 0 \/ Len(daily_df) < required_days THEN <<FALSE, 0>>
    ELSE LET n == LimitUpScan(SortDesc(daily_df), required_days, 1)
         IN  <<n >= required_days, n>>

-----------------------------------------------------------------------------
(* calculate_trend_status, after the fetch (lines 237-265) *)

TrendInsufficientEmptyOnly(daily_df) == Len(daily_df) = 0

TrendInsufficient(daily_df) ==
    Len(daily_df) = 0 \/ Len(daily_df) < trend_days

Closes(df) == AsTuple([i \in 1..Len(df) |-> df[i].close])

\* rolling(window).mean().fillna(0) at the last row, as numerator over window
LastRollingSum(df, window) ==
    IF Len(df) >= window THEN SumSeq(TailN(Closes(df), window)) ELSE 0

\* (high - low) / open * 100 of each row, in hundredths of a percent
Volatility(df) ==
    AsTuple([i \in 1..Len(df) |->
        IF df[i].open # 0
        THEN ((df[i].high - df[i].low) * 10000) \div df[i].open ELSE 0])

trend_status(daily_df) ==
    IF TrendInsufficient(daily_df) THEN <<FALSE, 0, 0>>
    ELSE
    LET df          == SortAsc(daily_df)
        start_close == df[1].close
        end_close   == df[Len(df)].close
        \* trend_up_pct >= 30, with trend_up_pct = 0 when start_close = 0
        up_ok       == IF start_close # 0
                       THEN (end_close - start_close) * 100
                                >= trend_up_pct * start_close
                       ELSE 0 >= trend_up_pct
        up_round    == IF start_close # 0
                       THEN RoundDiv((end_close - start_close) * 10000, start_close)
                       ELSE 0
        \* last_ma5 > last_ma20, cross-multiplied
        ma_ok       == LastRollingSum(df, 5) * 20 > LastRollingSum(df, 20) * 5
        last20      == TailN(Volatility(df), 20)
        vol_ok      == SumSeq(last20) <= trend_volatility_pct * 100 * Len(last20)
        vol_round   == RoundDiv(SumSeq(last20), Len(last20))
    IN  <<up_ok /\ ma_ok /\ vol_ok, up_round, vol_round>>

-----------------------------------------------------------------------------
(* The detectors as pure functions of the fetched bars *)

PctSet == {50, 97, 98, 99}

\* n bars on consecutive dates ending at Today0, in either order
StreakInputs ==
    UNION {
      UNION {
        { [i \in 1..n |-> [trade_date |-> Today0 - n + (IF asc THEN i ELSE n + 1 - i),
                            open |-> 1000, high |-> 1020, low |-> 1000,
                            close |-> 1000,
                            pct_chg |-> pcts[IF asc THEN i ELSE n + 1 - i]]]
          : asc \in BOOLEAN }
        : pcts \in [1..n -> PctSet] }
      : n \in 0..MaxLen }

\* the n most recent bars of a price series, in either order
TrendInputs ==
    UNION {
      { [i \in 1..n |-> BarOf(p, Today0 - (IF asc THEN n - i ELSE i - 1))]
        : p \in Profiles, asc \in BOOLEAN }
      : n \in 0..(trend_days + ExtraBars) }

NotRun == <<>>

NoCall == [fn |-> "none"]

IdleRest ==
    /\ clock = 24 * Today0
    /\ closed = {}
    /\ cache = <<>>
    /\ lastCall = NoCall
    /\ raw_universe = <<>>
    /\ raw_quotes = <<>>
    /\ qualified = <<>>
    /\ q_info = [status |-> "none", date |-> 0]
    /\ stock_basic = <<>>
    /\ stock_type = "all"
    /\ board_filter = "all"
    /\ pc = "idle"
    /\ trade_date = 0
    /\ idx = 0
    /\ result_list = <<>>
    /\ result_df = <<>>
    /\ run_log = <<>>

InitDetect ==
    /\ in_df \in StreakInputs \cup TrendInputs
    /\ in_k \in 1..MaxK
    /\ out_streak = NotRun
    /\ out_trend = NotRun
    /\ IdleRest

ApplyStreak ==
    /\ out_streak = NotRun
    /\ out_streak' = streak_status(in_df, in_k)
    /\ UNCHANGED <<clock, closed, cache, lastCall, raw_universe, raw_quotes,
                   qualified, q_info, in_df, in_k, out_trend, stock_basic,
                   stock_type, board_filter, pc, trade_date, idx, result_list,
                   result_df, run_log>>

ApplyTrend ==
    /\ out_trend = NotRun
    /\ out_trend' = trend_status(in_df)
    /\ UNCHANGED <<clock, closed, cache, lastCall, raw_universe, raw_quotes,
                   qualified, q_info, in_df, in_k, out_streak, stock_basic,
                   stock_type, board_filter, pc, trade_date, idx, result_list,
                   result_df, run_log>>

NextDetect == ApplyStreak \/ ApplyTrend

SpecDetect == InitDetect /\ [][NextDetect]_vars

-----------------------------------------------------------------------------
(* Claims about the detectors, under SpecDetect *)

\* the position in in_df of the bar with exactly r - 1 later bars
AtRank(r) ==
    CHOOSE i \in 1..Len(in_df) :
        Cardinality({j \in 1..Len(in_df) :
                        in_df[j].trade_date > in_df[i].trade_date}) = r - 1

\* the number of leading most-recent-first bars at or above 9.8 %, capped at k
LeadingRun(k) ==
    LET ok(j) == \A r \in 1..j : in_df[AtRank(r)].pct_chg >= 98
    IN  CHOOSE j \in 0..Min(k, Len(in_df)) :
            /\ ok(j)
            /\ \A m \in 0..Min(k, Len(in_df)) : ok(m) => m <= j

\* C7: with fewer than k bars the streak detector returns (False, 0);
\* otherwise it returns the number of leading most-recent-first bars with
\* percent change >= 9.8, counted to the first failing bar and capped at k,
\* and qualifies exactly when that number is k.
C7_StreakResult ==
    out_streak # NotRun =>
        IF Len(in_df) < in_k
        THEN out_streak = <<FALSE, 0>>
        ELSE out_streak = <<LeadingRun(in_k) = in_k, LeadingRun(in_k)>>

\* the scenario +9.9, +9.8, +5 most recent first, k = 2, gives (True, 2)
C7_Witness ==
    /\ Len(in_df) = 3
    /\ in_k = 2
    /\ in_df[AtRank(1)].pct_chg = 99
    /\ in_df[AtRank(2)].pct_chg = 98
    /\ in_df[AtRank(3)].pct_chg = 50
    /\ in_df[1].trade_date < in_df[3].trade_date
    /\ out_streak = <<TRUE, 2>>

\* C9: on an empty series or one of fewer than trend_days (60) bars the
\* trend detector returns exactly (False, 0, 0), whatever the bars hold.
C9_TrendShortSeries ==
    (out_trend # NotRun /\ Len(in_df) < 60) => out_trend = <<FALSE, 0, 0>>

\* 59 bars of a rising series, whose partial statistics would not be 0
C9_Witness ==
    /\ Len(in_df) = 59
    /\ in_df[1].close # in_df[59].close
    /\ out_trend = <<FALSE, 0, 0>>

-----------------------------------------------------------------------------
(* The pickle cache (lines 41-63) and the cached fetches *)

\* The variable cache holds the dict load_cache returns: a missing or
\* unreadable file is the empty dict (lines 49-55).
EmptyCache == <<>>

Put(cache_data, key, entry) ==
    [k \in (DOMAIN cache_data) \cup {key} |->
        IF k = key THEN entry ELSE cache_data[k]]

\* save_cache: the write succeeds, or fails before the file is opened (the
\* file keeps its content), or fails part-way (the file is left unreadable)
SaveOutcomes == {"ok", "unchanged", "corrupt"}

save_cache(old, cache_data, outcome) ==
    CASE outcome = "ok" -> cache_data
      [] outcome = "unchanged" -> old
      [] OTHER -> EmptyCache

IsFreshInclusive(entry, now) ==
    (now - entry.time) * SecondsPerHour <= cache_expire_hours * SecondsPerHour

\* (datetime.now() - cached_time).total_seconds() < cache_expire_hours * 3600
IsFresh(entry, now) ==
    (now - entry.time) * SecondsPerHour < cache_expire_hours * SecondsPerHour

DailyKey(ts_code, start_date, end_date) == <<"daily", ts_code, start_date, end_date>>

\* resp is what pro.daily does when it is called: [raised, df]
get_real_daily_data(c, now, key, resp, outcome) ==
    IF key \in DOMAIN c /\ IsFresh(c[key], now)
    THEN [df |-> c[key].payload, cache |-> c, queried |-> FALSE, wrote |-> FALSE]
    ELSE IF resp.raised
    THEN [df |-> <<>>, cache |-> c, queried |-> TRUE, wrote |-> FALSE]
    ELSE IF resp.df # <<>>
    THEN [df |-> resp.df,
          cache |-> save_cache(c, Put(c, key, [time |-> now, payload |-> resp.df]),
                               outcome),
          queried |-> TRUE, wrote |-> outcome = "ok"]
    ELSE [df |-> <<>>, cache |-> c, queried |-> TRUE, wrote |-> FALSE]

-----------------------------------------------------------------------------
(* get_all_qualified_stocks (lines 66-157) *)

\* whether pat occurs in name (both sequences of characters)
Contains(name, pat) ==
    \E i \in 1..(Len(name) - Len(pat) + 1) :
        SubSeq(name, i, i + Len(pat) - 1) = pat

\* name.str.contains("ETF|etf", regex=True)
name_is_etf(name) ==
    Contains(name, <<"E", "T", "F">>) \/ Contains(name, <<"e", "t", "f">>)

PriceOkStrict(price) == price > min_stock_price

PriceOk(price) == price >= min_stock_price

\* lines 97-102: today if it is open, else the last open date of the
\* lookback window; an empty window makes .iloc[-1] raise
ResolveQuoteDate(today) ==
    LET cal == trade_cal(today, today)
        back == trade_cal(today - lookback_days, today)
    IN  IF cal # <<>> THEN [ok |-> TRUE, date |-> cal[1]]
        ELSE IF back # <<>> THEN [ok |-> TRUE, date |-> back[Len(back)]]
        ELSE [ok |-> FALSE, date |-> 0]

\* lines 89-92
FilterListing(listing) ==
    SelectSeq(listing,
              LAMBDA r : r.market \notin {"chinext", "star"} /\ ~name_is_etf(r.name))

\* lines 121-130: left merge with the quotes, drop rows without a price,
\* keep prices at or above the minimum
MergeAndFilter(rows, quotes) ==
    LET priced == SelectSeq(rows,
                    LAMBDA r : r.ts_code \in DOMAIN quotes /\ PriceOk(quotes[r.ts_code]))
    IN  AsTuple([i \in 1..Len(priced) |->
            [ts_code |-> priced[i].ts_code, symbol |-> priced[i].symbol,
             name |-> priced[i].name, market |-> priced[i].market,
             close |-> quotes[priced[i].ts_code]]])

QualifiedKey == <<"qualified_stocks">>

\* fail names the upstream call that raises, if any: "none", "listing", "quotes".
\* An empty code list leaves price_df without columns, and line 118 raises.
\* An empty pro.daily answer is taken to carry its columns.
get_all_qualified_stocks(c, now, listing, quotes, fail, outcome) ==
    IF QualifiedKey \in DOMAIN c /\ IsFresh(c[QualifiedKey], now)
    THEN [df |-> c[QualifiedKey].payload, cache |-> c, queried |-> FALSE,
          wrote |-> FALSE, status |-> "cached", date |-> 0]
    ELSE
    LET kept == FilterListing(listing)
        day  == ResolveQuoteDate(now \div 24)
        err(d) == [df |-> <<>>, cache |-> c, queried |-> TRUE, wrote |-> FALSE,
                   status |-> "error", date |-> d]
    IN  IF fail = "listing" THEN err(0)
        ELSE IF ~day.ok THEN err(0)
        ELSE IF fail = "quotes" /\ kept # <<>> THEN err(day.date)
        ELSE IF kept = <<>> THEN err(day.date)
        ELSE LET stock_df == MergeAndFilter(kept, quotes)
             IN  [df |-> stock_df,
                  cache |-> save_cache(c, Put(c, QualifiedKey,
                                [time |-> now, payload |-> stock_df]), outcome),
                  queried |-> TRUE, wrote |-> outcome = "ok",
                  status |-> "fresh", date |-> day.date]

-----------------------------------------------------------------------------
(* The provider's listing and quotes *)

ListingPool ==
    << [ts_code |-> "000001.SZ", symbol |-> "000001", market |-> "main",
        name |-> <<"P", "A", "Y", "H">>],
       [ts_code |-> "002001.SZ", symbol |-> "002001", market |-> "sme",
        name |-> <<"X", "H", "C">>],
       [ts_code |-> "300001.SZ", symbol |-> "300001", market |-> "chinext",
        name |-> <<"T", "R", "D">>],
       [ts_code |-> "688001.SH", symbol |-> "688001", market |-> "star",
        name |-> <<"H", "X", "Y", "Y">>],
       [ts_code |-> "510300.SH", symbol |-> "510300", market |-> "main",
        name |-> <<"H", "S", "E", "T", "F">>],
       [ts_code |-> "159001.SZ", symbol |-> "159001", market |-> "sme",
        name |-> <<"e", "t", "f", "5", "0">>],
       [ts_code |-> "510500.SH", symbol |-> "510500", market |-> "main",
        name |-> <<"Z", "Z", "E", "t", "f">>] >>

Listings ==
    { SelectIdx(ListingPool, S, 1) :
        S \in {T \in SUBSET (1..Len(ListingPool)) : Cardinality(T) <= MaxUniverse} }

Codes(rows) == {rows[i].ts_code : i \in 1..Len(rows)}

\* the closes an instrument may have, in 0.1 yuan (2.5, 3.0, 5.0 yuan)
PriceSet(ts_code) ==
    CASE ts_code = "000001.SZ" -> {25, 30, 50}
      [] ts_code = "002001.SZ" -> {25, 50}
      [] OTHER -> {50}

\* the instruments that may have no quote (they did not trade)
MayLackQuote == {"000001.SZ", "002001.SZ", "300001.SZ", "688001.SH"}

\* the quote tables of a listing: ts_code -> close, for those that traded
QuotesOf(rows) ==
    UNION { {q \in [has -> {25, 30, 50}] : \A c \in has : q[c] \in PriceSet(c)}
            : has \in {h \in SUBSET Codes(rows) : Codes(rows) \ h \subseteq MayLackQuote} }

-----------------------------------------------------------------------------
(* Calls of the cached fetches, and the clock *)

Others == <<in_df, in_k, out_streak, out_trend, stock_basic, stock_type,
            board_filter, pc, trade_date, idx, result_list, result_df, run_log>>

\* what a call found under its key before it ran
Before(key) ==
    [had    |-> key \in DOMAIN cache,
     age    |-> IF key \in DOMAIN cache THEN clock - cache[key].time ELSE 0,
     stored |-> IF key \in DOMAIN cache THEN cache[key].payload ELSE <<>>]

CallDaily(ts_code, profile, start_date, end_date, resp) ==
    \E outcome \in SaveOutcomes :
        LET key == DailyKey(ts_code, start_date, end_date)
            r   == get_real_daily_data(cache, clock, key, resp, outcome)
        IN  /\ cache' = r.cache
            /\ lastCall' = [fn |-> "daily", key |-> key, now |-> clock,
                            before |-> Before(key), queried |-> r.queried,
                            wrote |-> r.wrote, raised |-> resp.raised,
                            answer |-> resp.df, result |-> r.df]
            /\ UNCHANGED <<clock, closed, raw_universe, raw_quotes, qualified,
                           q_info, Others>>

CallQualified(quotes) ==
    \E fail \in {"none", "listing", "quotes"}, outcome \in SaveOutcomes :
        LET r == get_all_qualified_stocks(cache, clock, raw_universe, quotes,
                                          fail, outcome)
        IN  /\ cache' = r.cache
            /\ qualified' = r.df
            /\ q_info' = [status |-> r.status, date |-> r.date]
            /\ raw_quotes' = IF r.status = "cached" THEN raw_quotes ELSE quotes
            /\ lastCall' = [fn |-> "qualified", key |-> QualifiedKey, now |-> clock,
                            before |-> Before(QualifiedKey), queried |-> r.queried,
                            wrote |-> r.wrote, raised |-> r.status = "error",
                            answer |-> <<>>, result |-> r.df]
            /\ UNCHANGED <<clock, closed, raw_universe, Others>>

Tick ==
    /\ clock + 12 <= 24 * Today0 + 12 * MaxTicks
    /\ clock' = clock + 12
    /\ UNCHANGED <<closed, cache, lastCall, raw_universe, raw_quotes, qualified,
                   q_info, Others>>

TickDay ==
    /\ clock + 24 <= 24 * Today0 + 24 * MaxDays
    /\ clock' = clock + 24
    /\ UNCHANGED <<closed, cache, lastCall, raw_universe, raw_quotes, qualified,
                   q_info, Others>>

IdleScreen ==
    /\ in_df = <<>>
    /\ in_k = default_required_days
    /\ out_streak = NotRun
    /\ out_trend = NotRun
    /\ stock_basic = <<>>
    /\ stock_type = "all"
    /\ board_filter = "all"
    /\ pc = "idle"
    /\ trade_date = 0
    /\ idx = 0
    /\ result_list = <<>>
    /\ result_df = <<>>
    /\ run_log = <<>>

-----------------------------------------------------------------------------
(* SpecCache: repeated cached fetches while the clock advances *)

CacheListing == SubSeq(ListingPool, 1, 2)

CacheQuotes ==
    { [c \in {"000001.SZ"} |-> 50], [c \in {"000001.SZ"} |-> 25] }

\* the bars a streak fetch ending on Today0 may get: all of them, or all but
\* the last day's (not yet published), or none
DailyAnswers(profile) ==
    { [raised |-> TRUE, df |-> <<>>],
      [raised |-> FALSE, df |-> <<>>],
      [raised |-> FALSE, df |-> pro_daily(profile, Today0 - 4, Today0)],
      [raised |-> FALSE, df |-> pro_daily(profile, Today0 - 4, Today0 - 1)] }

InitCache ==
    /\ clock = 24 * Today0
    /\ closed = {}
    /\ cache = EmptyCache
    /\ lastCall = NoCall
    /\ raw_universe = CacheListing
    /\ raw_quotes = <<>>
    /\ qualified = <<>>
    /\ q_info = [status |-> "none", date |-> 0]
    /\ IdleScreen

CallDailyAny ==
    \E resp \in DailyAnswers("surge") :
        CallDaily("600002.SH", "surge", Today0 - 4, Today0, resp)

CallQualifiedAny == \E quotes \in CacheQuotes : CallQualified(quotes)

NextCache == CallDailyAny \/ CallQualifiedAny \/ Tick

SpecCache == InitCache /\ [][NextCache]_vars

-----------------------------------------------------------------------------
(* SpecQualifier: the qualifier over every small listing and quote table *)

\* today closed after an open day, or closed at the end of a long holiday;
\* the day after is open in both
QualCalendars ==
    { {Today0}, (Today0 - lookback_days)..Today0 }

InitQualifier ==
    /\ clock = 24 * Today0
    /\ closed \in QualCalendars
    /\ cache = EmptyCache
    /\ lastCall = NoCall
    /\ raw_universe \in Listings
    /\ raw_quotes \in QuotesOf(raw_universe)
    /\ qualified = <<>>
    /\ q_info = [status |-> "none", date |-> 0]
    /\ IdleScreen

CallQualifiedNow == CallQualified(raw_quotes)

NextQualifier == CallQualifiedNow \/ TickDay

SpecQualifier == InitQualifier /\ [][NextQualifier]_vars

-----------------------------------------------------------------------------
(* Claims about the cache, under SpecCache *)

\* C3: a cached fetch returns the stored payload without querying upstream
\* exactly when an entry for its key exists and is younger than 24 hours; an
\* entry of 24 hours or more is never returned, also when the new fetch
\* raises or is empty; and what a fetch stored is what the cache then holds.
C3_ServedOnlyWhileFresh ==
    lastCall.fn # "none" =>
        LET b     == lastCall.before
            fresh == b.had /\ b.age < 24
        IN  /\ (~lastCall.queried) <=> fresh
            /\ fresh => lastCall.result = b.stored
            /\ (~fresh /\ lastCall.raised) => lastCall.result = <<>>
            /\ (~fresh /\ lastCall.fn = "daily" /\ ~lastCall.raised)
                   => lastCall.result = lastCall.answer
            /\ lastCall.wrote =>
                   /\ lastCall.key \in DOMAIN cache
                   /\ cache[lastCall.key] =
                          [time |-> lastCall.now, payload |-> lastCall.result]

\* a stale non-empty entry, a failing re-fetch, and nothing returned
C3_Witness ==
    /\ lastCall.fn = "daily"
    /\ lastCall.before.had
    /\ lastCall.before.age >= 24
    /\ lastCall.before.stored # <<>>
    /\ lastCall.raised
    /\ lastCall.result = <<>>

-----------------------------------------------------------------------------
(* Claims about the qualifier, under SpecQualifier *)

\* C5: the freshly computed qualified set holds exactly the listed
\* instruments that are outside the two excluded venues, pass the ETF-name
\* filter, have a quote, and are priced at 3.0 or more; the quote date is an
\* open day.
C5_QualifiedExactly ==
    /\ q_info.status = "error" => qualified = <<>>
    /\ q_info.status = "fresh" =>
        /\ q_info.date \notin closed
        /\ \A i \in 1..Len(raw_universe) :
              LET r == raw_universe[i]
              IN  (r.ts_code \in Codes(qualified)) <=>
                      /\ r.market # "chinext"
                      /\ r.market # "star"
                      /\ ~Contains(r.name, <<"E", "T", "F">>)
                      /\ ~Contains(r.name, <<"e", "t", "f">>)
                      /\ r.ts_code \in DOMAIN raw_quotes
                      /\ raw_quotes[r.ts_code] >= 30
        /\ \A j \in 1..Len(qualified) :
              /\ qualified[j].ts_code \in Codes(raw_universe)
              /\ qualified[j].close = raw_quotes[qualified[j].ts_code]
              /\ qualified[j].close >= 30
              /\ qualified[j].market \notin {"chinext", "star"}

\* three instruments: one on an excluded venue, one at 2.5, one at 5.0;
\* exactly the last is qualified
C5_Witness ==
    /\ q_info.status = "fresh"
    /\ Codes(raw_universe) = {"300001.SZ", "000001.SZ", "002001.SZ"}
    /\ DOMAIN raw_quotes = Codes(raw_universe)
    /\ raw_quotes["000001.SZ"] = 25
    /\ raw_quotes["002001.SZ"] = 50
    /\ Len(qualified) = 1
    /\ qualified[1].ts_code = "002001.SZ"

UpperChar(ch) ==
    CASE ch = "e" -> "E" [] ch = "t" -> "T" [] ch = "f" -> "F" [] OTHER -> ch

Upper(name) == [i \in 1..Len(name) |-> UpperChar(name[i])]

\* C6: no instrument whose name contains E, T, F consecutively in any letter
\* case is in the qualified set.
C6_NoEtfAnyCase ==
    \A j \in 1..Len(qualified) :
        ~Contains(Upper(qualified[j].name), <<"E", "T", "F">>)

-----------------------------------------------------------------------------
(* filter_all_stocks (lines 270-336) *)

\* the candidates of the screening runs, rows of a qualified table
CandidatePool ==
    << [ts_code |-> "600001.SH", symbol |-> "600001", market |-> "main"],
       [ts_code |-> "000003.SZ", symbol |-> "000003", market |-> "sme"] >>

\* the price series the provider holds for each candidate
ProfileOf(ts_code) == IF ts_code = "600001.SH" THEN "rocket" ELSE "climb"

RECURSIVE SeqsUpTo(_, _)
\* the sequences over set S of length at most n
SeqsUpTo(S, n) ==
    IF n = 0 THEN {<<>>}
    ELSE LET shorter == SeqsUpTo(S, n - 1)
         IN  shorter \cup {Append(t, x) : t \in shorter, x \in S}

CandidateTables == SeqsUpTo(Range(CandidatePool), MaxCand)

NaN == 0 - 1                    \* a column the row does not have

\* lines 277-278: today if the calendar lists it as open, else today all the same
ResolveFilterDate(today) ==
    LET cal == trade_cal(today, today)
    IN  IF cal # <<>> THEN cal[1] ELSE today

\* line 206: start_date = trade_date - (required_days + 2) calendar days
StreakWindowStart(date, required_days) == date - (required_days + 2)

TrendWindowStartWide(date) == date - 2 * trend_days

\* line 234: start_date = trade_date - trend_days calendar days
TrendWindowStart(date) == date - trend_days

\* calculate_limit_up_status (lines 202-228); raised: pro.daily raises when called
calculate_limit_up_status(c, now, ts_code, date, required_days, raised) ==
    LET start_date == StreakWindowStart(date, required_days)
        resp == [raised |-> raised,
                 df |-> pro_daily(ProfileOf(ts_code), start_date, date)]
        got  == get_real_daily_data(c, now, DailyKey(ts_code, start_date, date),
                                    resp, "ok")
    IN  [res |-> streak_status(got.df, required_days), cache |-> got.cache,
         failed |-> got.queried /\ raised]

\* calculate_trend_status (lines 230-268)
calculate_trend_status(c, now, ts_code, date, raised) ==
    LET start_date == TrendWindowStart(date)
        resp == [raised |-> raised,
                 df |-> pro_daily(ProfileOf(ts_code), start_date, date)]
        got  == get_real_daily_data(c, now, DailyKey(ts_code, start_date, date),
                                    resp, "ok")
    IN  [res |-> trend_status(got.df), cache |-> got.cache,
         failed |-> got.queried /\ raised]

NotYetEmittedBySymbol(name, symbol, rows) ==
    symbol \notin {rows[i].symbol : i \in 1..Len(rows)}

\* res_row.name not in [r.name for r in result_list]
NotYetEmitted(name, symbol, rows) ==
    name \notin {rows[i].name : i \in 1..Len(rows)}

\* n references to the same row object
Repeat(obj, n) == AsTuple([i \in 1..n |-> obj])

\* the try body of lines 297-316 for the row at position name.  res_row is
\* one object: every append stores a reference to it, so the rows already
\* appended show every later assignment to it.
ProcessRowResult(c, now, rows, row, name, mode, date, raised1, raised2) ==
    LET do_streak == mode \in {"all", "lianban"}
        do_trend  == mode \in {"all", "trend"}
        s   == calculate_limit_up_status(c, now, row.ts_code, date,
                                         default_required_days, raised1)
        c1  == IF do_streak THEN s.cache ELSE c
        t   == calculate_trend_status(c1, now, row.ts_code, date, raised2)
        c2  == IF do_trend THEN t.cache ELSE c1
        is_lianban == do_streak /\ s.res[1]
        is_trend   == do_trend /\ t.res[1]
        n12 == (IF is_lianban THEN 1 ELSE 0) + (IF is_trend THEN 1 ELSE 0)
        obj0 == [name |-> name, ts_code |-> row.ts_code, symbol |-> row.symbol,
                 market |-> row.market, label |-> "",
                 days |-> NaN, up_pct |-> NaN, vol |-> NaN]
        obj1 == IF do_streak
                THEN [obj0 EXCEPT !.days = s.res[2],
                                  !.label = IF is_lianban THEN "lianban" ELSE @]
                ELSE obj0
        obj2 == IF do_trend
                THEN [obj1 EXCEPT !.up_pct = t.res[2], !.vol = t.res[3],
                                  !.label = IF is_trend THEN "trend" ELSE @]
                ELSE obj1
        unmatched == mode = "all"
                     /\ NotYetEmitted(name, row.symbol, rows \o Repeat(obj2, n12))
        obj3 == IF unmatched THEN [obj2 EXCEPT !.label = "unmatched"] ELSE obj2
        n    == n12 + (IF unmatched THEN 1 ELSE 0)
    IN  [rows  |-> rows \o Repeat(obj3, n),
         cache |-> c2,
         log   |-> [streak |-> IF do_streak THEN s.res ELSE NotRun,
                    trend  |-> IF do_trend THEN t.res ELSE NotRun,
                    streak_failed |-> do_streak /\ s.failed,
                    trend_failed  |-> do_trend /\ t.failed]]

RECURSIVE DropDuplicates(_, _)
\* drop_duplicates(subset=[symbol], keep="first"); seen: the symbols kept so far
DropDuplicates(rows, seen) ==
    IF rows = <<>> THEN <<>>
    ELSE IF Head(rows).symbol \in seen THEN DropDuplicates(Tail(rows), seen)
    ELSE <<Head(rows)>> \o DropDuplicates(Tail(rows), seen \cup {Head(rows).symbol})

DropDuplicatesNone(rows) == rows

BySymbolKeepFirst(rows) == DropDuplicates(rows, {})

\* lines 328-336
FinalTable(rows, board) ==
    IF rows = <<>> THEN <<>>
    ELSE LET kept == IF board # "all"
                     THEN SelectSeq(rows, LAMBDA r : r.market = board)
                     ELSE rows
         IN  BySymbolKeepFirst(kept)

DataIdle ==
    /\ lastCall = NoCall
    /\ raw_universe = <<>>
    /\ raw_quotes = <<>>
    /\ qualified = <<>>
    /\ q_info = [status |-> "none", date |-> 0]
    /\ in_df = <<>>
    /\ in_k = default_required_days
    /\ out_streak = NotRun
    /\ out_trend = NotRun

DataVars == <<lastCall, raw_universe, raw_quotes, qualified, q_info, in_df,
              in_k, out_streak, out_trend>>

\* lines 272-285
StartFilter ==
    /\ pc = "idle"
    /\ IF stock_basic = <<>>
       THEN /\ pc' = "done"
            /\ UNCHANGED trade_date
       ELSE /\ pc' = "loop"
            /\ trade_date' = ResolveFilterDate(clock \div 24)
    /\ result_list' = <<>>
    /\ result_df' = <<>>
    /\ idx' = 0
    /\ run_log' = <<>>
    /\ UNCHANGED <<clock, closed, cache, stock_basic, stock_type, board_filter,
                   DataVars>>

\* one pass of the loop of lines 293-320
ProcessRow ==
    /\ pc = "loop"
    /\ idx < Len(stock_basic)
    /\ \E raised1 \in BOOLEAN, raised2 \in BOOLEAN :
          LET r == ProcessRowResult(cache, clock, result_list,
                                    stock_basic[idx + 1], idx + 1, stock_type,
                                    trade_date, raised1, raised2)
          IN  /\ result_list' = r.rows
              /\ cache' = r.cache
              /\ run_log' = Append(run_log, r.log)
    /\ idx' = idx + 1
    /\ UNCHANGED <<clock, closed, stock_basic, stock_type, board_filter, pc,
                   trade_date, result_df, DataVars>>

\* lines 325-336
FinishFilter ==
    /\ pc = "loop"
    /\ idx = Len(stock_basic)
    /\ result_df' = FinalTable(result_list, board_filter)
    /\ pc' = "done"
    /\ UNCHANGED <<clock, closed, cache, stock_basic, stock_type, board_filter,
                   trade_date, idx, result_list, run_log, DataVars>>

\* all days open; today closed; two closed days inside the trend window;
\* closed two days a week
ScreenCalendars ==
    { {}, {Today0}, {Today0 - 10, Today0 - 20},
      {d \in (Today0 - 150)..(Today0 + 7) : d % 7 \in {5, 6}} }

InitScreen ==
    /\ clock = 24 * Today0
    /\ closed \in ScreenCalendars
    /\ cache = EmptyCache
    /\ stock_basic \in CandidateTables
    /\ stock_type \in {"all", "lianban", "trend"}
    /\ board_filter \in {"all", "main"}
    /\ pc = "idle"
    /\ trade_date = 0
    /\ idx = 0
    /\ result_list = <<>>
    /\ result_df = <<>>
    /\ run_log = <<>>
    /\ DataIdle

Next == StartFilter \/ ProcessRow \/ FinishFilter

Spec == InitScreen /\ [][Next]_vars

-----------------------------------------------------------------------------
(* Claims about filter_all_stocks, under Spec *)

Symbols(rows) == {rows[i].symbol : i \in 1..Len(rows)}

\* the rows of a table that came from the candidate row at position i
RowsNamed(rows, i) == SelectSeq(rows, LAMBDA r : r.name = i)

\* C1: in mode "all" a candidate that qualifies under both detectors is kept
\* in the final result with the streak label, not the trend label.
C1_StreakLabelWins ==
    (pc = "done" /\ stock_type = "all") =>
        \A i \in 1..Len(run_log) :
            (run_log[i].streak[1] /\ run_log[i].trend[1]) =>
                \A j \in 1..Len(result_df) :
                    result_df[j].symbol = stock_basic[i].symbol
                        => result_df[j].label = "lianban"

\* C2: the reference date the loop passes to the detectors is an open
\* trading day.
C2_ReferenceDateIsOpen ==
    pc = "loop" => trade_date \notin closed

\* every fetch the mode asks for raised, for the row logged as e
AllFetchesFailed(e) ==
    /\ stock_type \in {"all", "lianban"} => e.streak_failed
    /\ stock_type \in {"all", "trend"} => e.trend_failed

C8_OneRowPerSymbol ==
    (pc = "done" /\ stock_type = "all" /\ board_filter = "all") =>
        /\ Symbols(result_df) = Symbols(stock_basic)
        /\ \A i \in 1..Len(result_df) : \A j \in 1..Len(result_df) :
              result_df[i].symbol = result_df[j].symbol => i = j
        /\ \A i \in 1..Len(result_df) :
              result_df[i].label \in {"lianban", "trend", "unmatched"}

\* a table with the same symbol twice, each row qualifying under both
\* detectors, ends as one row
C8_Witness ==
    /\ pc = "done" /\ stock_type = "all" /\ board_filter = "all"
    /\ Len(stock_basic) = 2
    /\ stock_basic[1].symbol = stock_basic[2].symbol
    /\ run_log[1].streak[1] /\ run_log[1].trend[1]
    /\ Len(result_list) > 2
    /\ Len(result_df) = 1

\* the non-trading dates among the trend_days + 1 dates of the trend window
ClosedInTrendWindow ==
    {d \in (trade_date - 60)..trade_date : d \in closed}

\* C10: when the trend window holds two or more non-trading dates the trend
\* detector returns (False, 0, 0) and no row is labeled trend.
C10_NoTrendWithTwoClosedDays ==
    (pc # "idle" /\ Cardinality(ClosedInTrendWindow) >= 2) =>
        /\ \A i \in 1..Len(run_log) :
              run_log[i].trend \in {NotRun, <<FALSE, 0, 0>>}
        /\ \A i \in 1..Len(result_list) : result_list[i].label # "trend"
        /\ \A i \in 1..Len(result_df) : result_df[i].label # "trend"

\* a steadily rising candidate, fetched without failure under a calendar
\* with exactly two closed days in the window, is not a trend
C10_Witness ==
    /\ pc = "done"
    /\ Cardinality(ClosedInTrendWindow) = 2
    /\ Len(run_log) >= 1
    /\ stock_basic[1].ts_code = "000003.SZ"
    /\ ~run_log[1].trend_failed
    /\ run_log[1].trend = <<FALSE, 0, 0>>

=============================================================================
